---- MODULE Spec2Model ----
(***************************************************************************)
(* Model of src/src/db.py: the data-access layer of the gnome game.        *)
(*                                                                         *)
(* Every function of db.py opens its own connection, runs its statements   *)
(* and returns, so each call is one atomic action.  The tables are         *)
(* sequences of rows in insertion order (the rowid order of SQLite).       *)
(*                                                                         *)
(* Values.  A Python / SQL value that may be None / NULL is a sequence of  *)
(* length at most one: <<>> is None (NULL) and <<v>> is the value v.  A    *)
(* str that the code inspects (paths, gnome names) is a sequence of        *)
(* one-character strings; a bytes value is a sequence of numbers 0..255.   *)
(***************************************************************************)
EXTENDS Integers, Sequences, FiniteSets, TLC

VARIABLES
    op,            \* name of the last call made on the store
    args,          \* its arguments
    raised,        \* "" when it returned, else the exception that propagated
    ret,           \* its return value
    local,         \* locals of the call that the caller never sees
    user,          \* table user(user_id, login, password)
    gnome,         \* table gnome(gnome_id, name, longitude, latitude, photo)
    visit,         \* table visit(visit_id, user_id, gnome_id, photo, visit_date)
    user_comment,  \* table user_comment(visit_id, coment, user_id)
    files          \* files written by write_file: path -> bytes

vars == <<op, args, raised, ret, local, user, gnome, visit, user_comment, files>>

tables == <<user, gnome, visit, user_comment>>

(***************************************************************************)
(* Bounds of the model.                                                    *)
(***************************************************************************)
MaxUsers == 2

MaxGnomes == 2

MaxVisits == 2

MaxComments == 2

None == <<>>

Some(v) == <<v>>

Range(s) == {s[i] : i \in DOMAIN s}

\* cursor.fetchone(): the first row of the result, or None
fetchone(rows) == IF rows = <<>> THEN None ELSE Some(rows[1])

(***************************************************************************)
(* Input values.                                                           *)
(***************************************************************************)
Logins == {"alice", "bob", "carol"}

Passwords == {"", "pw1", "pw2"}

\* the order in which the logins register when only the user ids matter
LoginOrder == <<"alice", "bob", "carol", "dave">>

(***************************************************************************)
(* user                                                                    *)
(***************************************************************************)

\* SELECT password FROM user WHERE login = ?
select_password(u, login) ==
    LET hit(row) == row.login = login
        rows == SelectSeq(u, hit)
    IN  [i \in DOMAIN rows |-> <<rows[i].password>>]

\* a verify_user that only checks that the login exists
verify_user_any_password(u, login, password) ==
    fetchone(select_password(u, login)) # None

\* the body of verify_user: fetch the first row, compare its first column
verify_user(u, login, password) ==
    LET result == fetchone(select_password(u, login))
    IN  IF result # None /\ result[1][1] = password THEN TRUE ELSE FALSE

\* the UNIQUE constraint on user.login that schema.sql declares
login_unique_violated(u, login) == \E i \in DOMAIN u : u[i].login = login

\* a create_user that replaces the row of an existing login
create_user_replace(u, login, password) ==
    IF \E i \in DOMAIN u : u[i].login = login
    THEN [raised |-> "",
          user |-> [i \in DOMAIN u |->
                      IF u[i].login = login
                      THEN [u[i] EXCEPT !.password = password] ELSE u[i]]]
    ELSE [raised |-> "",
          user |-> Append(u, [user_id |-> Len(u) + 1, login |-> login,
                              password |-> password])]

\* INSERT INTO user (login, password) VALUES (?, ?); commit.  A constraint
\* error leaves the with-block by the exception: rollback, and it propagates.
create_user(u, login, password) ==
    IF login_unique_violated(u, login)
    THEN [raised |-> "IntegrityError", user |-> u]
    ELSE [raised |-> "",
          user |-> Append(u, [user_id |-> Len(u) + 1, login |-> login,
                              password |-> password])]

CreateUser(login, password) ==
    /\ Len(user) < MaxUsers \/ login_unique_violated(user, login)
    /\ LET r == create_user(user, login, password)
       IN  /\ user' = r.user
           /\ raised' = r.raised
    /\ op' = "create_user"
    /\ args' = <<login, password>>
    /\ ret' = None
    /\ local' = None
    /\ UNCHANGED <<gnome, visit, user_comment, files>>

VerifyUser(login, password) ==
    /\ op' = "verify_user"
    /\ args' = <<login, password>>
    /\ raised' = ""
    /\ ret' = Some(verify_user(user, login, password))
    /\ local' = None
    /\ UNCHANGED <<user, gnome, visit, user_comment, files>>

(***************************************************************************)
(* Photo files: base64 and the file system                                 *)
(***************************************************************************)

\* the files a photo path may name, with their bytes; any other path is missing
SourceFiles ==
    [f \in {"/srv/empty.jpg", "/srv/two.jpg", "/srv/four.jpg"} |->
        CASE f = "/srv/empty.jpg" -> <<>>
          [] f = "/srv/two.jpg"   -> <<0, 16>>
          [] f = "/srv/four.jpg"  -> <<255, 216, 255, 224>>]

\* the ASCII code of the i-th character of the base64 alphabet
B64Char(i) ==
    IF i < 26 THEN 65 + i
    ELSE IF i < 52 THEN 97 + (i - 26)
    ELSE IF i < 62 THEN 48 + (i - 52)
    ELSE IF i = 62 THEN 43 ELSE 47

\* the index in the base64 alphabet of the character with ASCII code c
B64Index(c) ==
    IF c >= 65 /\ c <= 90 THEN c - 65
    ELSE IF c >= 97 /\ c <= 122 THEN c - 97 + 26
    ELSE IF c >= 48 /\ c <= 57 THEN c - 48 + 52
    ELSE IF c = 43 THEN 62 ELSE 63

B64Pad == 61

RECURSIVE b64encode(_)
\* base64.b64encode: three bytes to four characters, the tail padded with '='
b64encode(b) ==
    IF Len(b) = 0 THEN <<>>
    ELSE IF Len(b) = 1
    THEN <<B64Char(b[1] \div 4), B64Char((b[1] % 4) * 16), B64Pad, B64Pad>>
    ELSE IF Len(b) = 2
    THEN <<B64Char(b[1] \div 4), B64Char((b[1] % 4) * 16 + b[2] \div 16),
           B64Char((b[2] % 16) * 4), B64Pad>>
    ELSE <<B64Char(b[1] \div 4), B64Char((b[1] % 4) * 16 + b[2] \div 16),
           B64Char((b[2] % 16) * 4 + b[3] \div 64), B64Char(b[3] % 64)>>
         \o b64encode(SubSeq(b, 4, Len(b)))

RECURSIVE b64decode(_)
\* base64.b64decode of text that b64encode produced
b64decode(t) ==
    IF Len(t) < 4 THEN <<>>
    ELSE LET i1 == B64Index(t[1])
             i2 == B64Index(t[2])
             i3 == B64Index(t[3])
             i4 == B64Index(t[4])
             rest == b64decode(SubSeq(t, 5, Len(t)))
         IN  IF t[3] = B64Pad
             THEN <<i1 * 4 + i2 \div 16>> \o rest
             ELSE IF t[4] = B64Pad
             THEN <<i1 * 4 + i2 \div 16, (i2 % 16) * 16 + i3 \div 4>> \o rest
             ELSE <<i1 * 4 + i2 \div 16, (i2 % 16) * 16 + i3 \div 4,
                    (i3 % 4) * 64 + i4>> \o rest

\* read_file: open(file_path, 'rb') raises TypeError for None and
\* FileNotFoundError for a missing file; the error is logged and raised again
read_file(file_path) ==
    IF file_path = None
    THEN [raised |-> "TypeError", ablob |-> <<>>]
    ELSE IF file_path[1] \notin DOMAIN SourceFiles
    THEN [raised |-> "FileNotFoundError", ablob |-> <<>>]
    ELSE [raised |-> "", ablob |-> b64encode(SourceFiles[file_path[1]])]

\* open(file_path, 'wb') fails for a file under the read-only directory ro
open_wb_fails(file_path) ==
    Len(file_path) >= 3 /\ SubSeq(file_path, 1, 3) = <<"r", "o", "/">>

\* write_file: an empty blob writes nothing and returns None; else the decoded
\* bytes are written (True), or the error is logged and swallowed (False)
write_file(fs, ablob, file_path) ==
    IF ablob # <<>>
    THEN IF open_wb_fails(file_path)
         THEN [ret |-> Some(FALSE), files |-> fs]
         ELSE [ret |-> Some(TRUE),
               files |-> (file_path :> b64decode(ablob)) @@ fs]
    ELSE [ret |-> None, files |-> fs]

(***************************************************************************)
(* gnome                                                                   *)
(***************************************************************************)

\* a create_gnome that stores the row without a photo when read_file fails
create_gnome_swallow(g, name, longitude, latitude, photo_path) ==
    LET photo == read_file(photo_path)
    IN  [raised |-> "",
         gnome |-> Append(g, [gnome_id |-> Len(g) + 1, name |-> name,
                              longitude |-> longitude, latitude |-> latitude,
                              photo |-> IF photo.raised # "" THEN None
                                        ELSE Some(photo.ablob)])]

\* INSERT INTO gnome (name, longitude, latitude, photo) after read_file
create_gnome(g, name, longitude, latitude, photo_path) ==
    LET photo == read_file(photo_path)
    IN  IF photo.raised # ""
        THEN [raised |-> photo.raised, gnome |-> g]
        ELSE [raised |-> "",
              gnome |-> Append(g, [gnome_id |-> Len(g) + 1, name |-> name,
                                   longitude |-> longitude, latitude |-> latitude,
                                   photo |-> Some(photo.ablob)])]

\* UPDATE gnome SET name, longitude, latitude, photo WHERE gnome_id = ?
\* after read_file
update_gnome(g, gnome_id, name, longitude, latitude, photo_path) ==
    LET photo == read_file(photo_path)
    IN  IF photo.raised # ""
        THEN [raised |-> photo.raised, gnome |-> g]
        ELSE [raised |-> "",
              gnome |-> [i \in DOMAIN g |->
                           IF g[i].gnome_id = gnome_id
                           THEN [gnome_id |-> g[i].gnome_id, name |-> name,
                                 longitude |-> longitude, latitude |-> latitude,
                                 photo |-> Some(photo.ablob)]
                           ELSE g[i]]]

\* SELECT name, longitude, latitude, photo FROM gnome WHERE gnome_id = ?
select_gnome(g, gnome_id) ==
    LET hit(row) == row.gnome_id = gnome_id
    IN  SelectSeq(g, hit)

\* str(name) inside the f-string
format_name(name) == IF name = None THEN <<"N", "o", "n", "e">> ELSE name[1]

\* the photo path read_gnome builds from a path that is not None
build_photo_path(path, name) ==
    IF path # <<>> /\ path[Len(path)] = "/"
    THEN path \o format_name(name) \o <<".", "j", "p", "g">>
    ELSE IF path # <<>>
    THEN path \o <<"/">> \o format_name(name) \o <<".", "j", "p", "g">>
    ELSE format_name(name) \o <<".", "j", "p", "g">>

\* read_gnome: the row (or all None), the photo written unless path is None
\* or no photo is stored; the result of write_file is dropped
read_gnome(g, fs, gnome_id, path) ==
    LET result == fetchone(select_gnome(g, gnome_id))
        name == IF result = None THEN None ELSE result[1].name
        longitude == IF result = None THEN None ELSE result[1].longitude
        latitude == IF result = None THEN None ELSE result[1].latitude
        photo == IF result = None THEN None ELSE result[1].photo
    IN  IF path = None \/ photo = None
        THEN [ret |-> <<name, longitude, latitude, None>>,
              written |-> None, files |-> fs]
        ELSE LET photo_path == build_photo_path(path[1], name)
                 w == write_file(fs, photo[1], photo_path)
             IN  [ret |-> <<name, longitude, latitude, Some(photo_path)>>,
                  written |-> w.ret, files |-> w.files]

CreateGnome(name, longitude, latitude, photo_path) ==
    /\ Len(gnome) < MaxGnomes
    /\ LET r == create_gnome(gnome, name, longitude, latitude, photo_path)
       IN  /\ gnome' = r.gnome
           /\ raised' = r.raised
    /\ op' = "create_gnome"
    /\ args' = <<name, longitude, latitude, photo_path>>
    /\ ret' = None
    /\ local' = None
    /\ UNCHANGED <<user, visit, user_comment, files>>

UpdateGnome(gnome_id, name, longitude, latitude, photo_path) ==
    /\ LET r == update_gnome(gnome, gnome_id, name, longitude, latitude, photo_path)
       IN  /\ gnome' = r.gnome
           /\ raised' = r.raised
    /\ op' = "update_gnome"
    /\ args' = <<gnome_id, name, longitude, latitude, photo_path>>
    /\ ret' = None
    /\ local' = None
    /\ UNCHANGED <<user, visit, user_comment, files>>

ReadGnome(gnome_id, path) ==
    /\ LET r == read_gnome(gnome, files, gnome_id, path)
       IN  /\ ret' = r.ret
           /\ local' = r.written
           /\ files' = r.files
    /\ op' = "read_gnome"
    /\ args' = <<gnome_id, path>>
    /\ raised' = ""
    /\ UNCHANGED <<user, gnome, visit, user_comment>>


(***************************************************************************)
(* visit and draw_gnome                                                    *)
(***************************************************************************)

\* db.py never writes the visit table: the application inserts a visit row,
\* dated or not, for a user and a gnome that exist ...
InsertVisit(user_id, gnome_id, visit_date) ==
    /\ Len(visit) < MaxVisits
    /\ \E i \in DOMAIN user : user[i].user_id = user_id
    /\ \E i \in DOMAIN gnome : gnome[i].gnome_id = gnome_id
    /\ visit' = Append(visit, [visit_id |-> Len(visit) + 1, user_id |-> user_id,
                               gnome_id |-> gnome_id, photo |-> None,
                               visit_date |-> visit_date])
    /\ op' = "insert_visit"
    /\ args' = <<user_id, gnome_id, visit_date>>
    /\ raised' = ""
    /\ ret' = None
    /\ local' = None
    /\ UNCHANGED <<user, gnome, user_comment, files>>

\* ... and stamps an undated visit with its date on confirmation
ConfirmVisit(visit_id, visit_date) ==
    /\ \E i \in DOMAIN visit : visit[i].visit_id = visit_id /\ visit[i].visit_date = None
    /\ visit' = [i \in DOMAIN visit |->
                    IF visit[i].visit_id = visit_id
                    THEN [visit[i] EXCEPT !.visit_date = visit_date]
                    ELSE visit[i]]
    /\ op' = "confirm_visit"
    /\ args' = <<visit_id, visit_date>>
    /\ raised' = ""
    /\ ret' = None
    /\ local' = None
    /\ UNCHANGED <<user, gnome, user_comment, files>>

\* the subquery visit_no_date of sql_users: the dated visit rows
dated_visits(v) ==
    LET dated(row) == row.visit_date # None
    IN  SelectSeq(v, dated)

\* COUNT(user.user_id) of one user's group in user LEFT JOIN visit_no_date:
\* a row per dated visit of the user, and one row (visit columns NULL, but
\* user.user_id not NULL) when the user has none
count_joined_rows(v, user_id) ==
    LET mine(row) == row.user_id = user_id
        matched == SelectSeq(dated_visits(v), mine)
    IN  IF matched = <<>> THEN 1 ELSE Len(matched)

\* sql_users: the users whose group counts fewer rows than gnome has
sql_users(u, g, v) ==
    LET having(row) == count_joined_rows(v, row.user_id) < Len(g)
        rows == SelectSeq(u, having)
    IN  [i \in DOMAIN rows |-> rows[i].user_id]

\* an sql_gnomes that keeps the gnomes the join matched
sql_gnomes_matched(g, v, user_id) ==
    LET matched(row) ==
            \E i \in DOMAIN v : /\ v[i].visit_date # None
                                /\ v[i].user_id = user_id
                                /\ v[i].gnome_id = row.gnome_id
        rows == SelectSeq(g, matched)
    IN  [i \in DOMAIN rows |-> rows[i].gnome_id]

\* sql_gnomes: gnome LEFT JOIN the dated visits of the user, keeping the
\* gnome rows that no visit row matched
sql_gnomes(g, v, user_id) ==
    LET unmatched(row) ==
            ~ \E i \in DOMAIN v : /\ v[i].visit_date # None
                                  /\ v[i].user_id = user_id
                                  /\ v[i].gnome_id = row.gnome_id
        rows == SelectSeq(g, unmatched)
    IN  [i \in DOMAIN rows |-> rows[i].gnome_id]

\* draw_gnome: the values it may return (random.choice takes any element)
draw_gnome(u, g, v, user_id) ==
    LET users == sql_users(u, g, v)
        gnomes == sql_gnomes(g, v, user_id)
    IN  IF users # <<>>
        THEN IF gnomes # <<>>
             THEN {Some(gnomes[i]) : i \in DOMAIN gnomes}
             ELSE {None}
        ELSE {None}

DrawGnome(user_id) ==
    /\ \E drawn_gnome \in draw_gnome(user, gnome, visit, user_id) :
          ret' = drawn_gnome
    /\ local' = sql_users(user, gnome, visit)
    /\ op' = "draw_gnome"
    /\ args' = <<user_id>>
    /\ raised' = ""
    /\ UNCHANGED <<user, gnome, visit, user_comment, files>>

(***************************************************************************)
(* user_comment                                                            *)
(***************************************************************************)

RECURSIVE Concat(_)
\* the rows of a sequence of row sequences, in order
Concat(ss) == IF ss = <<>> THEN <<>> ELSE Head(ss) \o Concat(Tail(ss))

\* INSERT INTO user_comment (visit_id, coment, user_id): no foreign key is
\* enforced on a connection that never sets PRAGMA foreign_keys
insert_comment(uc, visit_id, coment, user_id) ==
    Append(uc, [visit_id |-> visit_id, coment |-> coment, user_id |-> user_id])

\* a get_comments without the WHERE clause on the gnome
get_comments_all_gnomes(u, v, uc, gnome_id) ==
    Concat([i \in DOMAIN uc |->
        Concat([j \in DOMAIN u |->
            Concat([k \in DOMAIN v |->
                IF /\ uc[i].user_id = u[j].user_id
                   /\ uc[i].visit_id = v[k].visit_id
                THEN <<[login |-> u[j].login, comment |-> uc[i].coment]>>
                ELSE <<>>])])])

\* get_comments: user_comment JOIN user JOIN visit WHERE v.gnome_id = ?,
\* one {login, comment} per joined row
get_comments(u, v, uc, gnome_id) ==
    Concat([i \in DOMAIN uc |->
        Concat([j \in DOMAIN u |->
            Concat([k \in DOMAIN v |->
                IF /\ uc[i].user_id = u[j].user_id
                   /\ uc[i].visit_id = v[k].visit_id
                   /\ v[k].gnome_id = gnome_id
                THEN <<[login |-> u[j].login, comment |-> uc[i].coment]>>
                ELSE <<>>])])])

InsertComment(visit_id, coment, user_id) ==
    /\ Len(user_comment) < MaxComments
    /\ user_comment' = insert_comment(user_comment, visit_id, coment, user_id)
    /\ op' = "insert_comment"
    /\ args' = <<visit_id, coment, user_id>>
    /\ raised' = ""
    /\ ret' = None
    /\ local' = None
    /\ UNCHANGED <<user, gnome, visit, files>>

GetComments(gnome_id) ==
    /\ ret' = get_comments(user, visit, user_comment, gnome_id)
    /\ op' = "get_comments"
    /\ args' = <<gnome_id>>
    /\ raised' = ""
    /\ local' = None
    /\ UNCHANGED <<user, gnome, visit, user_comment, files>>

Init ==
    /\ op = "init_db"
    /\ args = <<>>
    /\ raised = ""
    /\ ret = None
    /\ local = None
    /\ user = <<>>
    /\ gnome = <<>>
    /\ visit = <<>>
    /\ user_comment = <<>>
    /\ files = <<>>

(***************************************************************************)
(* The user operations alone.                                              *)
(***************************************************************************)
NextUser ==
    \/ \E l \in Logins, p \in Passwords : CreateUser(l, p)
    \/ \E l \in Logins, p \in Passwords : VerifyUser(l, p)

SpecUser == Init /\ [][NextUser]_vars

(***************************************************************************)
(* The gnome rows: create_gnome and update_gnome with every input.         *)
(***************************************************************************)
PhotoPaths ==
    {None, Some("/srv/missing.jpg")} \cup {Some(f) : f \in DOMAIN SourceFiles}

\* name, longitude, latitude as update_gnome may get them: all given, all
\* omitted, one omitted
UpdateFields ==
    { <<Some(<<"B">>), Some(18), Some(52)>>,
      <<None, None, None>>,
      <<Some(<<"B">>), None, Some(52)>> }

NextGnome ==
    \/ \E p \in PhotoPaths : CreateGnome(Some(<<"A">>), Some(17), Some(51), p)
    \/ \E id \in 1..(MaxGnomes + 1), f \in UpdateFields, p \in PhotoPaths :
          UpdateGnome(id, f[1], f[2], f[3], p)

SpecGnome == Init /\ [][NextGnome]_vars

(***************************************************************************)
(* The photo export: gnomes created and updated from the photo files, and  *)
(* read_gnome into each kind of directory.                                 *)
(***************************************************************************)
OutputPaths ==
    {None, Some(<<>>), Some(<<"o">>), Some(<<"o", "/">>), Some(<<"r", "o">>)}

NextPhoto ==
    \/ \E p \in PhotoPaths : CreateGnome(Some(<<"A">>), Some(17), Some(51), p)
    \/ \E id \in 1..MaxGnomes, p \in PhotoPaths :
          UpdateGnome(id, None, Some(17), Some(51), p)
    \/ \E id \in 1..(MaxGnomes + 1), d \in OutputPaths : ReadGnome(id, d)

SpecPhoto == Init /\ [][NextPhoto]_vars

(***************************************************************************)
(* The draw: users, gnomes, visits (dated, undated, repeated) and          *)
(* draw_gnome.                                                             *)
(***************************************************************************)
VisitDates == {None, Some("2024-05-01")}

NextDraw ==
    \/ CreateUser(LoginOrder[Len(user) + 1], "pw1")
    \/ CreateGnome(Some(<<"A">>), Some(17), Some(51), Some("/srv/two.jpg"))
    \/ \E u \in 1..MaxUsers, g \in 1..MaxGnomes, d \in VisitDates :
          InsertVisit(u, g, d)
    \/ \E id \in 1..MaxVisits : ConfirmVisit(id, Some("2024-05-01"))
    \/ \E u \in 1..MaxUsers : DrawGnome(u)

SpecDraw == Init /\ [][NextDraw]_vars

(***************************************************************************)
(* The comments: visits of the first user, comments naming any visit id    *)
(* and any user id (the row may not exist, or not yet), and get_comments.  *)
(***************************************************************************)
NextComment ==
    \/ CreateUser(LoginOrder[Len(user) + 1], "pw1")
    \/ CreateGnome(Some(<<"A">>), Some(17), Some(51), Some("/srv/two.jpg"))
    \/ \E g \in 1..MaxGnomes : InsertVisit(1, g, Some("2024-05-01"))
    \/ \E v \in 1..MaxVisits, u \in 1..MaxUsers : InsertComment(v, "nice", u)
    \/ \E g \in 1..MaxGnomes : GetComments(g)

SpecComment == Init /\ [][NextComment]_vars

(***************************************************************************)
(* All the operations together.                                            *)
(***************************************************************************)
Next == NextUser \/ NextGnome \/ NextPhoto \/ NextDraw \/ NextComment

Spec == Init /\ [][Next]_vars

(***************************************************************************)
(* Claims on the user operations (under SpecUser).                         *)
(***************************************************************************)

\* C3: verify_user(login, password) returns True exactly when a user row
\* with that login exists whose stored password equals the supplied one,
\* returns False otherwise without raising, and changes no table.
C3_VerifyUser ==
    [][op' = "verify_user" =>
          /\ raised' = ""
          /\ ret' = Some(\E i \in DOMAIN user :
                            /\ user[i].login = args'[1]
                            /\ user[i].password = args'[2])
          /\ tables' = tables]_vars

\* verify_user answered True for the second user created, and the table also
\* holds another user
C3_Witness ==
    /\ op = "verify_user"
    /\ ret = Some(TRUE)
    /\ Len(user) = 2
    /\ user[2].login = args[1]
    /\ user[1].password # args[2]

\* C4: no two user rows share a login; create_user with an existing login
\* raises the uniqueness error and leaves the user table as it was, and
\* create_user with a new login appends exactly one row holding its arguments.
C4_UniqueLogin ==
    /\ [](\A i, j \in DOMAIN user : user[i].login = user[j].login => i = j)
    /\ [][op' = "create_user" =>
            IF \E i \in DOMAIN user : user[i].login = args'[1]
            THEN raised' = "IntegrityError" /\ user' = user
            ELSE /\ raised' = ""
                 /\ Len(user') = Len(user) + 1
                 /\ SubSeq(user', 1, Len(user)) = user
                 /\ user'[Len(user')].login = args'[1]
                 /\ user'[Len(user')].password = args'[2]]_vars

\* create_user was refused for a login whose row holds another password
C4_Witness ==
    /\ op = "create_user"
    /\ raised = "IntegrityError"
    /\ \E i \in DOMAIN user : user[i].login = args[1] /\ user[i].password # args[2]

(***************************************************************************)
(* Claims on the gnome rows (under SpecGnome).                             *)
(***************************************************************************)

ReadablePaths == {Some(f) : f \in DOMAIN SourceFiles}

\* the photo column for a photo path argument that is omitted or readable
photo_passed(photo_path) ==
    IF photo_path = None THEN None
    ELSE Some(b64encode(SourceFiles[photo_path[1]]))

\* C5: update_gnome on an existing gnome overwrites name, longitude, latitude
\* and photo with what was passed, an omitted argument (the photo path
\* included) giving null; create_gnome without a photo path persists a gnome
\* row with no photo.
C5_OverwriteAll ==
    /\ (op = "update_gnome" /\ args[5] \in ReadablePaths \cup {None}) =>
          \A i \in DOMAIN gnome :
              gnome[i].gnome_id = args[1] =>
                  /\ gnome[i].name = args[2]
                  /\ gnome[i].longitude = args[3]
                  /\ gnome[i].latitude = args[4]
                  /\ gnome[i].photo = photo_passed(args[5])
    /\ (op = "create_gnome" /\ args[4] = None) =>
          /\ raised = ""
          /\ gnome # <<>>
          /\ gnome[Len(gnome)].name = args[1]
          /\ gnome[Len(gnome)].photo = None

\* C6: when read_file fails in create_gnome or update_gnome the call raises
\* and nothing is persisted: no table and no file changes.
C6_ReadFailure ==
    [][(/\ op' \in {"create_gnome", "update_gnome"}
        /\ args'[Len(args')] \notin ReadablePaths) =>
          /\ raised' # ""
          /\ tables' = tables
          /\ files' = files]_vars

\* update_gnome of an existing gnome raised on a missing photo file, with
\* fields that differ from the stored ones
C6_Witness ==
    /\ op = "update_gnome"
    /\ args[5] = Some("/srv/missing.jpg")
    /\ raised = "FileNotFoundError"
    /\ \E i \in DOMAIN gnome : gnome[i].gnome_id = args[1] /\ gnome[i].name # args[2]

(***************************************************************************)
(* Claims on the photo export (under SpecPhoto).                           *)
(***************************************************************************)

WritableOutputPaths == {Some(<<>>), Some(<<"o">>), Some(<<"o", "/">>)}

\* C7: for a gnome whose photo was stored from a source file, whatever its
\* bytes, read_gnome into a writable directory returns the path of a file
\* holding exactly those bytes, with the gnome's name, longitude and latitude.
C7_PhotoRoundTrip ==
    (op = "read_gnome" /\ args[2] \in WritableOutputPaths) =>
        \A i \in DOMAIN gnome, f \in DOMAIN SourceFiles :
            (/\ gnome[i].gnome_id = args[1]
             /\ gnome[i].photo = Some(b64encode(SourceFiles[f]))) =>
                /\ ret[1] = gnome[i].name
                /\ ret[2] = gnome[i].longitude
                /\ ret[3] = gnome[i].latitude
                /\ ret[4] # None
                /\ ret[4][1] \in DOMAIN files
                /\ files[ret[4][1]] = SourceFiles[f]

\* C9: when write_file fails inside read_gnome nothing propagates, the name,
\* longitude and latitude are returned, and the returned photo path does not
\* name a file that was not written.
C9_WriteFailureReported ==
    (op = "read_gnome" /\ local = Some(FALSE)) =>
        /\ raised = ""
        /\ \E i \in DOMAIN gnome :
              /\ gnome[i].gnome_id = args[1]
              /\ ret[1] = gnome[i].name
              /\ ret[2] = gnome[i].longitude
              /\ ret[3] = gnome[i].latitude
        /\ ret[4] # None => ret[4][1] \in DOMAIN files

(***************************************************************************)
(* Claims on draw_gnome (under SpecDraw).                                  *)
(***************************************************************************)

\* the user has a visit row with a date for the gnome
completed(user_id, gnome_id) ==
    \E i \in DOMAIN visit : /\ visit[i].user_id = user_id
                            /\ visit[i].gnome_id = gnome_id
                            /\ visit[i].visit_date # None

\* the gnomes the user has no dated visit for
uncompleted(user_id) ==
    {gnome[i].gnome_id : i \in {j \in DOMAIN gnome : ~ completed(user_id, gnome[j].gnome_id)}}

\* C1: draw_gnome(user_id) never returns a gnome the user has a dated visit
\* for, and returns None when the user has a dated visit for every gnome.
C1_NeverCompleted ==
    op = "draw_gnome" =>
        /\ ret # None => ~ completed(args[1], ret[1])
        /\ (\A i \in DOMAIN gnome : completed(args[1], gnome[i].gnome_id)) => ret = None

\* a gnome was drawn for a user who has a dated visit for another gnome and
\* an undated visit for the drawn one
C1_Witness ==
    /\ op = "draw_gnome"
    /\ ret # None
    /\ \E i \in DOMAIN gnome : completed(args[1], gnome[i].gnome_id)
    /\ \E i \in DOMAIN visit : /\ visit[i].user_id = args[1]
                               /\ visit[i].gnome_id = ret[1]
                               /\ visit[i].visit_date = None

\* C2: when the user has an uncompleted gnome, draw_gnome returns one of the
\* uncompleted gnomes and not None.
C2_DrawsWhenPossible ==
    (/\ op = "draw_gnome"
     /\ \E i \in DOMAIN user : user[i].user_id = args[1]
     /\ uncompleted(args[1]) # {}) =>
        ret # None /\ ret[1] \in uncompleted(args[1])

\* C10: the users sql_users selects are exactly those with fewer distinct
\* gnomes with a dated visit than there are gnomes.
C10_UsersWithGnomesLeft ==
    op = "draw_gnome" =>
        Range(local) =
            {user[i].user_id : i \in
                {j \in DOMAIN user :
                    Cardinality({gnome[k].gnome_id : k \in
                        {m \in DOMAIN gnome : completed(user[j].user_id, gnome[m].gnome_id)}})
                    < Len(gnome)}}

(***************************************************************************)
(* Claims on the comments (under SpecComment).                             *)
(***************************************************************************)

\* the comment row names a visit row of the gnome
on_gnome(row, gnome_id) ==
    \E k \in DOMAIN visit : /\ visit[k].visit_id = row.visit_id
                            /\ visit[k].gnome_id = gnome_id

\* the comment row names a user row
has_author(row) == \E j \in DOMAIN user : user[j].user_id = row.user_id

\* the entry get_comments owes a comment row whose author exists
entry_of(row) ==
    [login |-> user[CHOOSE j \in DOMAIN user : user[j].user_id = row.user_id].login,
     comment |-> row.coment]

\* how many times e occurs in the sequence s
occurrences(s, e) == Cardinality({i \in DOMAIN s : s[i] = e})

\* C8, as claimed: get_comments(gnome_id) has exactly one entry per comment
\* row whose visit belongs to the gnome, each with its author's login, and no
\* other entry.
C8_EveryCommentOfGnome ==
    op = "get_comments" =>
        LET rows == {i \in DOMAIN user_comment : on_gnome(user_comment[i], args[1])}
        IN  /\ Len(ret) = Cardinality(rows)
            /\ \A i \in rows : has_author(user_comment[i])
            /\ \A e \in Range(ret) :
                  occurrences(ret, e) =
                      Cardinality({i \in rows : entry_of(user_comment[i]) = e})

\* C8, amended: get_comments(gnome_id) has exactly one entry per comment row
\* whose visit belongs to the gnome and whose user_id names an existing user,
\* each with that user's login, and no other entry (none at all for a gnome
\* without such comments).
C8_CommentsWithAuthor ==
    op = "get_comments" =>
        LET rows == {i \in DOMAIN user_comment :
                        /\ on_gnome(user_comment[i], args[1])
                        /\ has_author(user_comment[i])}
        IN  /\ Len(ret) = Cardinality(rows)
            /\ \A e \in Range(ret) \cup {entry_of(user_comment[i]) : i \in rows} :
                  occurrences(ret, e) =
                      Cardinality({i \in rows : entry_of(user_comment[i]) = e})

\* get_comments returned a comment of the gnome by the second user and left
\* out a comment on a visit to another gnome
C8_Witness ==
    /\ op = "get_comments"
    /\ Len(ret) = 1
    /\ Len(user) = 2
    /\ ret[1].login = user[2].login
    /\ \E i \in DOMAIN user_comment, k \in DOMAIN visit :
          /\ visit[k].visit_id = user_comment[i].visit_id
          /\ visit[k].gnome_id # args[1]
          /\ has_author(user_comment[i])

====
